---------------------------- MODULE Spec2Model ----------------------------
(***************************************************************************)
(* Model of src/src/html_query.rs: the selector parser                     *)
(* (parse_selector_string and its helpers), the basic selector matcher     *)
(* (element_matches_basic_selector) and the tree search                    *)
(* (find_elements_for_selector, find_elements) behind the two entry        *)
(* points select(dom, s) and find(element, s).                             *)
(*                                                                         *)
(* A Rust &str is modelled as a sequence of one-character strings.  The    *)
(* only character of the alphabet that is not ASCII is NBSP (U+00A0), a    *)
(* Unicode White_Space character that is not ASCII whitespace.  Every      *)
(* token reaching a byte slice [1..] has passed the whitespace assertion,  *)
(* hence is pure ASCII here, and a byte index equals a character index.    *)
(*                                                                         *)
(* A document is a sequence of nodes in pre-order; node i carries the      *)
(* index of its parent (0 for a child of the Dom itself).  An element      *)
(* reference (&Element) is the index of the node.                          *)
(***************************************************************************)
EXTENDS Naturals, Sequences, FiniteSets, TLC

VARIABLES dom, selectors_string, pc, call, ret, examined

vars == <<dom, selectors_string, pc, call, ret, examined>>

(***************************************************************************)
(* Bounds of the model.                                                    *)
(***************************************************************************)
MaxLen == 4        \* longest selector string of the parser specification
MaxSelLen == 3     \* longest selector string of the search specification
MaxNodes == 3      \* most nodes of a document of the search specification
MaxCompoundLen == 6 \* longest selector string of the compound specification
MaxChainLen == 5   \* longest selector string of the chain specification

(***************************************************************************)
(* Characters and strings.                                                 *)
(***************************************************************************)
NBSP == "nbsp"

Str(c) == <<c>>

\* char::is_whitespace for the characters of the alphabet
is_whitespace(c) == c \in {" ", NBSP}

\* u8::is_ascii_whitespace, the predicate split_ascii_whitespace splits on
is_ascii_whitespace(c) == c = " "

\* str::contains(char) / str::contains(predicate)
contains(s, c) == \E i \in 1..Len(s) : s[i] = c

contains_whitespace(s) == \E i \in 1..Len(s) : is_whitespace(s[i])

\* &s[n..]
From(s, n) == SubSeq(s, n, Len(s))

\* index of the first occurrence of c in s (s contains c)
FirstIndex(s, c) == CHOOSE i \in 1..Len(s) : s[i] = c /\ \A j \in 1..(i-1) : s[j] # c

\* str::split(char): one more piece than there are separators
RECURSIVE split(_, _)
split(s, c) ==
    IF ~contains(s, c) THEN <<s>>
    ELSE LET i == FirstIndex(s, c)
         IN  <<SubSeq(s, 1, i - 1)>> \o split(From(s, i + 1), c)

\* str::split_ascii_whitespace: the non-empty maximal runs of other characters
RECURSIVE split_ascii_whitespace(_)
split_ascii_whitespace(s) ==
    IF s = <<>> THEN <<>>
    ELSE IF is_ascii_whitespace(s[1]) THEN split_ascii_whitespace(Tail(s))
    ELSE LET stops == {i \in 1..Len(s) : is_ascii_whitespace(s[i])}
             n == IF stops = {} THEN Len(s) + 1
                  ELSE CHOOSE i \in stops : \A j \in stops : i <= j
         IN  <<SubSeq(s, 1, n - 1)>> \o split_ascii_whitespace(From(s, n))

\* all strings over an alphabet, up to a length
Strings(alphabet, n) == UNION {[1..k -> alphabet] : k \in 0..n}

(***************************************************************************)
(* anyhow::Result, plus the panic of a failed assert! or slice.            *)
(***************************************************************************)
Ok(v) == [kind |-> "Ok", v |-> v]
Err == [kind |-> "Err", v |-> <<>>]
Panic == [kind |-> "Panic", v |-> <<>>]

(***************************************************************************)
(* enum BasicSelector and enum Selector.                                   *)
(***************************************************************************)
All == [type |-> "All", name |-> <<>>, classes |-> <<>>]
Id(id) == [type |-> "Id", name |-> id, classes |-> <<>>]
Element(tag) == [type |-> "Element", name |-> tag, classes |-> <<>>]
Class(class) == [type |-> "Class", name |-> class, classes |-> <<>>]
IdWithClasses(id, cs) == [type |-> "IdWithClasses", name |-> id, classes |-> cs]
ElementWithClasses(tag, cs) == [type |-> "ElementWithClasses", name |-> tag, classes |-> cs]
ClassList(cs) == [type |-> "ClassList", name |-> <<>>, classes |-> cs]

Basic(b) == [kind |-> "Basic", atoms |-> <<b>>]
Hierarchical(bs) == [kind |-> "Hierarchical", atoms |-> bs]

(***************************************************************************)
(* The parser.                                                             *)
(***************************************************************************)
\* let v = ...; the rest
With(v, rest(_)) == rest(v)

\* the `?` operator: anything but Ok leaves the function at once
Try(r, rest(_)) == IF r.kind # "Ok" THEN r ELSE rest(r.v)

parse_individual_selector_string(s) ==
    IF contains_whitespace(s) THEN Panic              \* assert, line 62
    ELSE IF Len(s) < 1 THEN Panic                     \* [1..] out of range
    ELSE IF contains(From(s, 2), ".") THEN Panic      \* assert, line 64
    ELSE IF s = Str("*") THEN Ok(All)
    ELSE IF s[1] = "." THEN
        LET class == Tail(s)
        IN  IF class = <<>> THEN Err ELSE Ok(Class(class))
    ELSE IF s[1] = "#" THEN
        LET id == Tail(s)
        IN  IF id = <<>> THEN Err
            ELSE IF contains(From(id, 2), "#") \/ contains(From(id, 2), "#") THEN Err
            ELSE Ok(Id(id))
    ELSE Ok(Element(s))

\* a slip: the class list of a class-only compound loses its first class,
\* taken for the anchor as the tag of "tag.c" is
parese_complex_selector_anchor(s) ==
    IF contains_whitespace(s) THEN Panic
    ELSE With(split(s, "."), LAMBDA parts :
        IF Len(parts) = 0 THEN Err
        ELSE IF Len(parts) = 1 THEN parse_individual_selector_string(s)
        ELSE IF Len(parts) = 2 /\ parts[1] = <<>>
             THEN parse_individual_selector_string(s)
        ELSE
        LET class_parts == IF parts[1] = <<>> THEN Tail(parts) ELSE parts
            first_selector == IF parts[1] = <<>>
                              THEN Str(".") \o class_parts[2]
                              ELSE class_parts[1]
        IN  Try(parse_individual_selector_string(first_selector), LAMBDA b :
                CASE b.type = "All" -> Err
                  [] b.type = "Element" ->
                        Ok(ElementWithClasses(b.name, Tail(class_parts)))
                  [] b.type = "Id" ->
                        Ok(IdWithClasses(b.name, Tail(class_parts)))
                  [] b.type = "Class" -> Ok(ClassList(Tail(class_parts)))
                  [] OTHER -> Err))

parese_complex_selector(s) ==
    IF contains_whitespace(s) THEN Panic              \* assert, line 92
    ELSE With(split(s, "."), LAMBDA parts :
        IF Len(parts) = 0 THEN Err
        ELSE IF Len(parts) = 1 THEN parse_individual_selector_string(s)
        ELSE IF Len(parts) = 2 /\ parts[1] = <<>>
             THEN parse_individual_selector_string(s)
        ELSE
        LET class_parts == IF parts[1] = <<>> THEN Tail(parts) ELSE parts
            first_selector == IF parts[1] = <<>>
                              THEN Str(".") \o class_parts[2]
                              ELSE class_parts[1]
        IN  Try(parse_individual_selector_string(first_selector), LAMBDA b :
                CASE b.type = "All" -> Err
                  [] b.type = "Element" ->
                        Ok(ElementWithClasses(b.name, Tail(class_parts)))
                  [] b.type = "Id" ->
                        Ok(IdWithClasses(b.name, Tail(class_parts)))
                  [] b.type = "Class" -> Ok(ClassList(class_parts))
                  [] OTHER -> Err))

\* the inner loop of lines 134-137: one compound per token, `?` on each
RECURSIVE parse_hierarchical(_, _)
parse_hierarchical(selector_strings, hierarchical_selectors) ==
    IF selector_strings = <<>> THEN Ok(hierarchical_selectors)
    ELSE Try(parese_complex_selector(Head(selector_strings)), LAMBDA basic_selector :
            parse_hierarchical(Tail(selector_strings),
                               Append(hierarchical_selectors, basic_selector)))

\* the body of the loop over the comma-separated items, lines 125-141
parse_item(item) ==
    With(split_ascii_whitespace(item), LAMBDA selector_strings :
        IF Len(selector_strings) = 0 THEN Err
        ELSE IF Len(selector_strings) = 1 THEN
            Try(parese_complex_selector(selector_strings[1]), LAMBDA b : Ok(Basic(b)))
        ELSE
            Try(parse_hierarchical(selector_strings, <<>>), LAMBDA h :
                IF ~(Len(h) > 1) THEN Panic           \* assert, line 138
                ELSE Ok(Hierarchical(h))))

\* a slip: an item that does not parse is skipped, the rest is still returned
RECURSIVE parse_items_skipping(_, _)
parse_items_skipping(items, selectors) ==
    IF items = <<>> THEN Ok(selectors)
    ELSE With(parse_item(Head(items)), LAMBDA r :
            IF r.kind # "Ok" THEN parse_items_skipping(Tail(items), selectors)
            ELSE parse_items_skipping(Tail(items), Append(selectors, r.v)))

\* the loop over the comma-separated items, line 124: the first item that
\* does not parse ends the call
RECURSIVE parse_items(_, _)
parse_items(items, selectors) ==
    IF items = <<>> THEN Ok(selectors)
    ELSE Try(parse_item(Head(items)), LAMBDA selector :
            parse_items(Tail(items), Append(selectors, selector)))

parse_selector_string(s) == parse_items(split(s, ","), <<>>)

(***************************************************************************)
(* The document tree (html_parser::Dom, Node, Element), consumed only.     *)
(***************************************************************************)
None == <<>>
Some(x) == <<x>>

\* Element {id, name, classes, children, source_span}: span is the place of the
\* element in the parsed text, different for any two elements of a document
\* that Dom::parse produced
ElementNode(parent, name, id, classes, span) ==
    [parent |-> parent, kind |-> "Element", name |-> name, id |-> id,
     classes |-> classes, span |-> span]

TextNode(parent) ==
    [parent |-> parent, kind |-> "Text", name |-> <<>>, id |-> None,
     classes |-> {}, span |-> 0]

\* element.children / dom.children: the nodes below p, in order (p = 0: the Dom)
children(d, p) ==
    SelectSeq([i \in 1..Len(d) |-> i], LAMBDA j : d[j].parent = p)

RECURSIVE IsAncestorOrSelf(_, _, _)
IsAncestorOrSelf(d, a, x) ==
    x = a \/ (x > 0 /\ IsAncestorOrSelf(d, a, d[x].parent))

\* the nodes of the subtree of x, x included
SubtreeNodes(d, x) == {j \in 1..Len(d) : IsAncestorOrSelf(d, x, j)}

\* the value of an Element: its fields and, recursively, its children
ElementValue(d, x) ==
    LET n == Cardinality(SubtreeNodes(d, x))
    IN  [k \in 1..n |->
            LET j == x + k - 1
            IN  [d[j] EXCEPT !.parent = IF k = 1 THEN 0 ELSE d[j].parent - x + 1]]

\* PartialEq of &Element, used by Vec::contains: equality of the values
ElementEq(d, x, y) == x = y \/ ElementValue(d, x) = ElementValue(d, y)

\* a finite ordered tree stored in pre-order: a Text node has no children
WellFormed(d) ==
    \A i \in 1..Len(d) :
        /\ d[i].parent < i
        /\ d[i].parent > 0 =>
              /\ d[d[i].parent].kind = "Element"
              /\ IsAncestorOrSelf(d, d[i].parent, i - 1)

\* every document of at most n nodes labelled from labels
Docs(n, labels) ==
    UNION {
        {d \in [1..k -> [parent : 0..(k-1), label : labels]] :
            WellFormed([i \in 1..k |-> [parent |-> d[i].parent, kind |-> d[i].label.kind]])}
        : k \in 0..n}

\* the document Dom::parse produces: every element has its own source span
MkDoc(d) ==
    [i \in 1..Len(d) |->
        IF d[i].label.kind = "Text" THEN TextNode(d[i].parent)
        ELSE ElementNode(d[i].parent, d[i].label.name, d[i].label.id,
                         d[i].label.classes, i)]

Elements(d) == {i \in 1..Len(d) : d[i].kind = "Element"}

(***************************************************************************)
(* The basic selector matcher.                                             *)
(***************************************************************************)
element_matches_basic_selector(d, element, basic_selector) ==
    LET e == d[element]
        b == basic_selector
        all_classes == \A i \in 1..Len(b.classes) : b.classes[i] \in e.classes
    IN  CASE b.type = "All" -> TRUE
          [] b.type = "Id" -> e.id # None /\ b.name = e.id[1]
          [] b.type = "Element" -> b.name = e.name
          [] b.type = "Class" -> b.name \in e.classes
          [] b.type = "IdWithClasses" ->
                e.id # None /\ b.name = e.id[1] /\ all_classes
          [] b.type = "ElementWithClasses" -> b.name = e.name /\ all_classes
          [] b.type = "ClassList" -> all_classes

(***************************************************************************)
(* The tree search.  Each function returns a Result, as in the source;     *)
(* find_elements also reports the set of elements it was called on.        *)
(***************************************************************************)
RECURSIVE find_elements_for_selector(_, _, _)
RECURSIVE for_selector_children(_, _, _, _)

\* the loops of lines 205-212 and 218-222: append the matches below each
\* Element child, `?` on each
for_selector_children(d, kids, selector, elements) ==
    IF kids = <<>> THEN Ok(elements)
    ELSE IF d[Head(kids)].kind # "Element"
         THEN for_selector_children(d, Tail(kids), selector, elements)
    ELSE Try(find_elements_for_selector(d, Head(kids), selector), LAMBDA found :
            for_selector_children(d, Tail(kids), selector, elements \o found))

\* a slip: an element that matches the first atom of a chain is itself
\* offered to the rest of the chain
find_elements_for_selector_self(d, element, selector) ==
    IF selector.kind = "Basic" THEN
        IF element_matches_basic_selector(d, element, selector.atoms[1])
        THEN Ok(<<element>>)
        ELSE Ok(<<>>)
    ELSE
        LET basic_selectors == selector.atoms
        IN  IF element_matches_basic_selector(d, element, basic_selectors[1]) THEN
                IF Len(basic_selectors) = 1 THEN Ok(<<element>>)
                ELSE for_selector_children(d, <<element>>,
                                           Hierarchical(Tail(basic_selectors)), <<>>)
            ELSE for_selector_children(d, children(d, element), selector, <<>>)

find_elements_for_selector(d, element, selector) ==
    IF selector.kind = "Basic" THEN
        IF element_matches_basic_selector(d, element, selector.atoms[1])
        THEN Ok(<<element>>)
        ELSE Ok(<<>>)
    ELSE
        LET basic_selectors == selector.atoms
        IN  IF element_matches_basic_selector(d, element, basic_selectors[1]) THEN
                IF Len(basic_selectors) = 1 THEN Ok(<<element>>)
                ELSE for_selector_children(d, children(d, element),
                                           Hierarchical(Tail(basic_selectors)), <<>>)
            ELSE for_selector_children(d, children(d, element), selector, <<>>)

\* a slip: every match is pushed, without the test of line 240
push_all(d, elements, matching_elements) == elements \o matching_elements

\* lines 239-243: push each match the vector does not contain yet
RECURSIVE push_new(_, _, _)
push_new(d, elements, matching_elements) ==
    IF matching_elements = <<>> THEN elements
    ELSE IF \E k \in 1..Len(elements) : ElementEq(d, elements[k], Head(matching_elements))
         THEN push_new(d, elements, Tail(matching_elements))
         ELSE push_new(d, Append(elements, Head(matching_elements)),
                       Tail(matching_elements))

\* a slip: an element that no selector of the list matches is an error
RECURSIVE match_selectors_or_fail(_, _, _, _)
match_selectors_or_fail(d, element, selectors, elements) ==
    IF selectors = <<>> THEN (IF elements = <<>> THEN Err ELSE Ok(elements))
    ELSE Try(find_elements_for_selector(d, element, Head(selectors)),
             LAMBDA matching_elements :
                match_selectors_or_fail(d, element, Tail(selectors),
                                        push_new(d, elements, matching_elements)))

\* lines 237-244: the selectors of the list in order, `?` on each
RECURSIVE match_selectors(_, _, _, _)
match_selectors(d, element, selectors, elements) ==
    IF selectors = <<>> THEN Ok(elements)
    ELSE Try(find_elements_for_selector(d, element, Head(selectors)),
             LAMBDA matching_elements :
                match_selectors(d, element, Tail(selectors),
                                push_new(d, elements, matching_elements)))

\* a Result together with the set of elements find_elements was called on
Found(k, v, seen) == [kind |-> k, v |-> v, seen |-> seen]

RECURSIVE find_elements(_, _, _)
RECURSIVE find_in_children(_, _, _, _, _)

\* lines 246-250 (and 15-19 of select): recurse into every Element child
find_in_children(d, kids, selectors, elements, seen) ==
    IF kids = <<>> THEN Found("Ok", elements, seen)
    ELSE IF d[Head(kids)].kind # "Element"
         THEN find_in_children(d, Tail(kids), selectors, elements, seen)
    ELSE With(find_elements(d, Head(kids), selectors), LAMBDA r :
            IF r.kind # "Ok" THEN Found(r.kind, <<>>, seen \cup r.seen)
            ELSE find_in_children(d, Tail(kids), selectors,
                                  elements \o r.v, seen \cup r.seen))

find_elements(d, element, selectors) ==
    With(match_selectors(d, element, selectors, <<>>), LAMBDA own :
        IF own.kind # "Ok" THEN Found(own.kind, <<>>, {element})
        ELSE find_in_children(d, children(d, element), selectors, own.v, {element}))

(***************************************************************************)
(* The entry points.                                                       *)
(***************************************************************************)
find(d, element, s) ==
    With(parse_selector_string(s), LAMBDA selectors :
        IF selectors.kind # "Ok" THEN Found(selectors.kind, <<>>, {})
        ELSE find_elements(d, element, selectors.v))

select(d, s) ==
    With(parse_selector_string(s), LAMBDA selectors :
        IF selectors.kind # "Ok" THEN Found(selectors.kind, <<>>, {})
        ELSE find_in_children(d, children(d, 0), selectors.v, <<>>, {}))

(***************************************************************************)
(* Inputs.                                                                 *)
(***************************************************************************)
A == Str("a")
B == Str("b")

\* every character the selector grammar gives a meaning to, and two letters
AsciiAlphabet == {"a", "b", ".", "#", "*", ",", " "}

\* the same with a whitespace character that is not ASCII whitespace
ParseAlphabet == AsciiAlphabet \cup {NBSP}

\* lists and chains of tag names
SearchAlphabet == {"a", "b", ",", " "}

SearchLabels ==
    { [kind |-> "Element", name |-> A, id |-> None, classes |-> {}],
      [kind |-> "Element", name |-> B, id |-> None, classes |-> {}],
      [kind |-> "Text", name |-> <<>>, id |-> None, classes |-> {}] }

\* the two tag names are interchangeable (the strings range over both), so
\* the first element of a document is taken to be an <a>
FirstElementIsA(d) ==
    \A i \in 1..Len(d) :
        (d[i].label.kind = "Element" /\ \A j \in 1..(i - 1) : d[j].label.kind = "Text")
            => d[i].label.name = A

SearchDocs == {MkDoc(d) : d \in {x \in Docs(MaxNodes, SearchLabels) : FirstElementIsA(x)}}

\* <a id="a" class="b"> text <b class="a b"> <a/> </b> </a> <b id="b"/>
ParseDoc ==
    << ElementNode(0, A, Some(A), {B}, 1),
       TextNode(1),
       ElementNode(1, B, None, {A, B}, 3),
       ElementNode(3, A, None, {}, 4),
       ElementNode(0, B, Some(B), {}, 5) >>

\* <b> <b class="a"> <a id="b"/> </b> </b>
NestedDoc ==
    << ElementNode(0, B, None, {}, 1),
       ElementNode(1, B, None, {A}, 2),
       ElementNode(2, A, Some(B), {}, 3) >>

\* a document with no element: only text
TextDoc == << TextNode(0) >>

EmptyDoc == <<>>

ParseDocs == {ParseDoc, NestedDoc, TextDoc, EmptyDoc}

\* chains of tag names over documents of elements only
ChainAlphabet == {"a", "b", " "}

ChainLabels == {l \in SearchLabels : l.kind = "Element"}

ChainDocs == {MkDoc(d) : d \in {x \in Docs(MaxNodes, ChainLabels) : FirstElementIsA(x)}}

\* compounds: names, class suffixes and id anchors
CompoundAlphabet == {"a", "b", ".", "#"}

\* a document with an element of every tag in {a, b}, id in {none, a, b}
\* and class set over {a, b}, nested three deep:
\* <a><b id="a"><a id="a"/></b></a> <b id="b"><a id="b"><b/></a></b>
\* <a class="a">...
CompoundDoc ==
    [i \in 1..24 |->
        ElementNode(IF (i - 1) % 3 = 0 THEN 0 ELSE i - 1,
                    IF i % 2 = 1 THEN A ELSE B,
                    CASE (i \div 2) % 3 = 0 -> None
                      [] (i \div 2) % 3 = 1 -> Some(A)
                      [] OTHER -> Some(B),
                    CASE (i - 1) \div 6 = 0 -> {}
                      [] (i - 1) \div 6 = 1 -> {A}
                      [] (i - 1) \div 6 = 2 -> {B}
                      [] OTHER -> {A, B},
                    i)]

NoCall == [op |-> "none", element |-> 0]
NoRet == [kind |-> "None", v |-> <<>>]

(***************************************************************************)
(* The state machine: one call of select or of find on the inputs.  ret    *)
(* is what the call returned (or Panic), examined the elements the search  *)
(* was run on.                                                             *)
(***************************************************************************)
InitCommon ==
    /\ pc = "idle"
    /\ call = NoCall
    /\ ret = NoRet
    /\ examined = {}

\* the search specification: every small document, every short selector
Init ==
    /\ dom \in SearchDocs
    /\ selectors_string \in Strings(SearchAlphabet, MaxSelLen)
    /\ InitCommon

\* the parser specification: every short string over the whole alphabet
InitParse ==
    /\ dom \in ParseDocs
    /\ selectors_string \in Strings(ParseAlphabet, MaxLen)
    /\ InitCommon

\* the same over ASCII strings only
InitAscii ==
    /\ dom \in ParseDocs
    /\ selectors_string \in Strings(AsciiAlphabet, MaxLen)
    /\ InitCommon

\* the compound specification: every short string of names, "." and "#"
InitCompound ==
    /\ dom \in {CompoundDoc, EmptyDoc}
    /\ selectors_string \in Strings(CompoundAlphabet, MaxCompoundLen)
    /\ InitCommon

\* the chain specification: every small tree of elements, every short chain
InitChain ==
    /\ dom \in ChainDocs
    /\ selectors_string \in Strings(ChainAlphabet, MaxChainLen)
    /\ InitCommon

Select ==
    /\ pc = "idle"
    /\ \E r \in {select(dom, selectors_string)} :
           /\ ret' = [kind |-> r.kind, v |-> r.v]
           /\ examined' = r.seen
    /\ call' = [op |-> "select", element |-> 0]
    /\ pc' = "done"
    /\ UNCHANGED <<dom, selectors_string>>

Find(element) ==
    /\ pc = "idle"
    /\ \E r \in {find(dom, element, selectors_string)} :
           /\ ret' = [kind |-> r.kind, v |-> r.v]
           /\ examined' = r.seen
    /\ call' = [op |-> "find", element |-> element]
    /\ pc' = "done"
    /\ UNCHANGED <<dom, selectors_string>>

Next ==
    \/ Select
    \/ \E element \in Elements(dom) : Find(element)

Spec == Init /\ [][Next]_vars

SpecParse == InitParse /\ [][Next]_vars

SpecAscii == InitAscii /\ [][Next]_vars

SpecCompound == InitCompound /\ [][Next]_vars

SpecChain == InitChain /\ [][Next]_vars

(***************************************************************************)
(* Vocabulary of the properties.                                           *)
(***************************************************************************)
Done == pc = "done"

Range(q) == {q[i] : i \in 1..Len(q)}

\* the selector list of the call, as parsed
Parsed == parse_selector_string(selectors_string)

\* the compound tokens of a selector string: of every comma-separated item,
\* the pieces between ASCII whitespace
TokensOf(s) ==
    LET items == split(s, ",")
    IN  UNION {Range(split_ascii_whitespace(items[i])) : i \in 1..Len(items)}

\* document order: the elements below a list of nodes, pre-order, depth
\* first, left to right
RECURSIVE PreOrderOf(_, _)
PreOrderOf(d, kids) ==
    IF kids = <<>> THEN <<>>
    ELSE LET h == Head(kids)
         IN  (IF d[h].kind = "Element"
              THEN <<h>> \o PreOrderOf(d, children(d, h))
              ELSE <<>>) \o PreOrderOf(d, Tail(kids))

DocumentOrder == PreOrderOf(dom, children(dom, 0))

Position(q, x) == CHOOSE i \in 1..Len(q) : q[i] = x

\* the elements the call searches, in document order: the whole document
\* for select, the subtree of the element (itself included) for find
Scope ==
    IF call.op = "select" THEN DocumentOrder
    ELSE PreOrderOf(dom, <<call.element>>)

AtomOnly(selectors) == \A i \in 1..Len(selectors) : selectors[i].kind = "Basic"

MatchesSome(selectors, e) ==
    \E i \in 1..Len(selectors) :
        element_matches_basic_selector(dom, e, selectors[i].atoms[1])

\* c ends a path n0, ..., nk = c inside scope, each a proper descendant of
\* the one before and each matching its atom
RECURSIVE ChainEndsAt(_, _, _)
ChainEndsAt(scope, atoms, c) ==
    /\ element_matches_basic_selector(dom, c, atoms[Len(atoms)])
    /\ \/ Len(atoms) = 1
       \/ \E n \in scope :
            /\ n # c
            /\ IsAncestorOrSelf(dom, n, c)
            /\ ChainEndsAt(scope, SubSeq(atoms, 1, Len(atoms) - 1), n)

(***************************************************************************)
(* C1.  The list select/find returns holds each element at most once.      *)
(* Stated as claimed; the search refutes it: a chain whose first atom      *)
(* matches below the search root is found once from the root's frame and   *)
(* once more from the frame of the matching element.                       *)
(***************************************************************************)
C1_NoDuplicates ==
    Done /\ ret.kind = "Ok" =>
        \A i, j \in 1..Len(ret.v) : i # j => ret.v[i] # ret.v[j]

(***************************************************************************)
(* C2.  The elements returned are in strict document order: an element at  *)
(* an earlier position of the result comes earlier in the pre-order        *)
(* traversal.  Stated as claimed; the search refutes it.                   *)
(***************************************************************************)
C2_DocumentOrder ==
    Done /\ ret.kind = "Ok" =>
        \A i, j \in 1..Len(ret.v) :
            i < j => Position(DocumentOrder, ret.v[i]) < Position(DocumentOrder, ret.v[j])

(***************************************************************************)
(* C3.  Chain completeness: for every chain a0 ... ak of the list, every   *)
(* searched element that ends a path of proper descendants n0, ..., nk     *)
(* matching a0, ..., ak is in the result, whatever lies between them.      *)
(* Stated as claimed; the search refutes it: below a match of a0 the       *)
(* search stops at the first element matching the last atom and never      *)
(* looks below it.                                                         *)
(***************************************************************************)
C3_ChainComplete ==
    Done /\ ret.kind = "Ok" /\ Parsed.kind = "Ok" =>
        \A i \in 1..Len(Parsed.v) :
            Parsed.v[i].kind = "Hierarchical" =>
                \A c \in Range(Scope) :
                    ChainEndsAt(Range(Scope), Parsed.v[i].atoms, c) => c \in Range(ret.v)

EmptyClassToken(t) ==
    \E i \in 1..Len(t) : t[i] = "." /\ (i = Len(t) \/ t[i + 1] = ".")

HasEmptyClass(selectors) ==
    \E i \in 1..Len(selectors) : \E k \in 1..Len(selectors[i].atoms) :
        LET b == selectors[i].atoms[k]
        IN  (b.type = "Class" /\ b.name = <<>>) \/ <<>> \in Range(b.classes)

C5_EmptyClassRejected ==
    Done =>
        /\ (\E t \in TokensOf(selectors_string) : EmptyClassToken(t)) => ret.kind = "Err"
        /\ Parsed.kind = "Ok" => ~HasEmptyClass(Parsed.v)

(***************************************************************************)
(* C6.  A token that is a lone "#", or that starts with "#" and has        *)
(* another "#" anywhere in the text after it, is an error, and no parsed   *)
(* Id atom has "#" in its id.  Stated as claimed; the parser refutes it:   *)
(* the test for a second "#" skips the first character of the id.          *)
(***************************************************************************)
BadIdToken(t) == t[1] = "#" /\ (Len(t) = 1 \/ contains(Tail(t), "#"))

HasHashInId(selectors) ==
    \E i \in 1..Len(selectors) : \E k \in 1..Len(selectors[i].atoms) :
        LET b == selectors[i].atoms[k]
        IN  b.type \in {"Id", "IdWithClasses"} /\ contains(b.name, "#")

C6_SecondHashRejected ==
    Done =>
        /\ (\E t \in TokensOf(selectors_string) : BadIdToken(t)) => ret.kind = "Err"
        /\ Parsed.kind = "Ok" => ~HasHashInId(Parsed.v)

(***************************************************************************)
(* C7.  A token made of a tag name followed by "#" and an id is an error.  *)
(* Stated as claimed; the parser refutes it: a token that starts with      *)
(* none of "*", ".", "#" is taken whole as a tag name.                     *)
(***************************************************************************)
Letters == {"a", "b"}

TagWithIdToken(t) ==
    \E i \in 2..(Len(t) - 1) :
        /\ t[i] = "#"
        /\ \A j \in 1..(i - 1) : t[j] \in Letters
        /\ t[i + 1] \in Letters

C7_TagWithIdRejected ==
    Done /\ (\E t \in TokensOf(selectors_string) : TagWithIdToken(t)) => ret.kind = "Err"

(***************************************************************************)
(* C8.  Parsing is all-or-nothing.  When some comma-separated item is      *)
(* malformed (empty or ASCII whitespace only, ".", "#", or "*" followed    *)
(* by a class suffix) and every other item is valid, the call returns an   *)
(* error, wherever the item stands; and a call that does not return Ok     *)
(* has examined no element and returns no element.  (A compound that       *)
(* still holds a whitespace character is the case of C10.)                 *)
(***************************************************************************)
MalformedItem(item) ==
    LET t == split_ascii_whitespace(item)
    IN  \/ t = <<>>
        \/ /\ Len(t) = 1
           /\ \/ t[1] = Str(".")
              \/ t[1] = Str("#")
              \/ /\ Len(t[1]) >= 2 /\ t[1][1] = "*" /\ t[1][2] = "."
                 /\ ~contains_whitespace(t[1])

ValidItem(item) == parse_item(item).kind = "Ok"

C8_AllOrNothing ==
    Done =>
        LET items == split(selectors_string, ",")
        IN  /\ ( /\ \E i \in 1..Len(items) : MalformedItem(items[i])
                 /\ \A i \in 1..Len(items) : MalformedItem(items[i]) \/ ValidItem(items[i]) )
               => ret.kind = "Err"
            /\ ret.kind # "Ok" => (examined = {} /\ ret.v = <<>>)

\* a valid item that matches elements of the document, then a malformed one
C8_Witness ==
    /\ Done /\ ret.kind = "Err" /\ call.op = "select"
    /\ LET items == split(selectors_string, ",")
       IN  /\ Len(items) = 2
           /\ ValidItem(items[1])
           /\ MalformedItem(items[2])
           /\ parse_item(items[1]).v.kind = "Basic"
           /\ \E e \in Elements(dom) : MatchesSome(<<parse_item(items[1]).v>>, e)

(***************************************************************************)
(* C9.  Once the string has parsed, the call returns Ok; when every        *)
(* selector of the list names, in one of its atoms, something no searched  *)
(* element has, the result is empty; and select on a document with no      *)
(* element children returns the empty list.                                *)
(***************************************************************************)
NamesAbsent(selector) ==
    \E k \in 1..Len(selector.atoms) :
        \A e \in Range(Scope) : ~element_matches_basic_selector(dom, e, selector.atoms[k])

C9_SearchNeverFails ==
    Done /\ Parsed.kind = "Ok" =>
        /\ ret.kind = "Ok"
        /\ (\A i \in 1..Len(Parsed.v) : NamesAbsent(Parsed.v[i])) => ret.v = <<>>
        /\ (call.op = "select" /\ Elements(dom) = {}) => ret.v = <<>>

\* a search over several elements for a class none of them has
C9_Witness ==
    /\ Done /\ Parsed.kind = "Ok" /\ ret.kind = "Ok" /\ ret.v = <<>>
    /\ Cardinality(examined) >= 3
    /\ Parsed.v[1].atoms[1].type = "Class"
    /\ Range(Parsed.v[1].atoms[1].name) \subseteq Letters

(***************************************************************************)
(* C10.  Every call ends in a returned value, Ok or Err, never in a        *)
(* failed assertion.  Stated as claimed; the parser refutes it: the items  *)
(* are split on ASCII whitespace, and the assertions then reject every     *)
(* Unicode whitespace character by a panic.                                *)
(***************************************************************************)
C10_NoAssertionFailure == Done => ret.kind \in {"Ok", "Err"}


\* ---- C11 ----
\* the pieces of a single compound token: the anchor before the first "."
\* and the class names after it
CompoundParts == split(selectors_string, ".")
CompoundAnchor == CompoundParts[1]
CompoundClasses == {CompoundParts[i] : i \in 2..Len(CompoundParts)}
IsName(s) == s # <<>> /\ Range(s) \subseteq Letters
TagAnchor == IsName(CompoundAnchor)
IdAnchor ==
    /\ CompoundAnchor # <<>>
    /\ Head(CompoundAnchor) = "#"
    /\ IsName(Tail(CompoundAnchor))
NoAnchor == CompoundAnchor = <<>> /\ Len(CompoundParts) >= 3
CompoundToken ==
    /\ Len(CompoundParts) >= 2
    /\ \A i \in 2..Len(CompoundParts) : IsName(CompoundParts[i])
    /\ TagAnchor \/ IdAnchor \/ NoAnchor

\* what the token asks of an element, read off the string alone
CompoundExpects(e) ==
    /\ CompoundClasses \subseteq dom[e].classes
    /\ TagAnchor => dom[e].name = CompoundAnchor
    /\ IdAnchor => dom[e].id = Some(Tail(CompoundAnchor))

\* C11: a single compound token with non-empty names, "tag.c1...cn",
\* "#id.c1...cn" or ".c1...cn" (n >= 2), selects exactly the elements of
\* the searched subtree whose tag (or id) is the anchor and whose class set
\* holds every listed class, the first one included, whatever their order.
C11_CompoundAnd ==
    (Done /\ CompoundToken) =>
        /\ ret.kind = "Ok"
        /\ Range(ret.v) = {e \in Range(Scope) : CompoundExpects(e)}

\* ".c1.c2" with two different classes has selected something, and left out
\* an element that has c2 but not c1
C11_Witness ==
    /\ Done
    /\ CompoundToken
    /\ NoAnchor
    /\ Cardinality(CompoundClasses) = 2
    /\ ret.kind = "Ok"
    /\ ret.v # <<>>
    /\ \E e \in Range(Scope) :
        /\ CompoundParts[3] \in dom[e].classes
        /\ CompoundParts[2] \notin dom[e].classes
        /\ e \notin Range(ret.v)


\* ---- C12 ----
\* the call was made with a single chain a0 ... ak, k >= 1
SingleChain ==
    /\ Parsed.kind = "Ok"
    /\ Len(Parsed.v) = 1
    /\ Parsed.v[1].kind = "Hierarchical"

=============================================================================
